---------------------------- MODULE Spec2Model ----------------------------
(***************************************************************************)
(* State-machine model of the interaction hooks of the component library:  *)
(*   useDisclosure  (packages/hooks/src/useDisclosure.ts)                   *)
(*   useTooltip     (packages/chakra-ui/src/Input/styles.ts, lines 290-452) *)
(* and, each under a specification of its own, of the style resolution of  *)
(* Input and Button and of the Avatar component (see the sections below).   *)
(*                                                                         *)
(* One hook instance is modelled.  Every handler is one atomic action: the *)
(* host dispatches events and timer callbacks one at a time, and the       *)
(* re-render a state write causes is part of the action that wrote.        *)
(*                                                                         *)
(* Time is kept relative: a pending timer carries the time it still has to *)
(* wait (left); Tick lets one unit of time pass and is possible only while *)
(* no pending timer is due, so a due timer runs before time moves on.      *)
(* Input events may still be handled while a timer is due and not yet run. *)
(***************************************************************************)
EXTENDS Integers, Sequences, FiniteSets

VARIABLES
    props,          \* the props of the current render (record, see TooltipProps)
    isOpenState,    \* useDisclosure: React.useState value
    isControlledRef,\* useControllableProp: what was fixed at construction
    prevIsOpen,     \* usePrevious: the remembered value ("undefined" at first)
    onOpenCalls,    \* number of invocations of the onOpen prop
    onCloseCalls,   \* number of invocations of the onClose prop
    timers,         \* window timers that are scheduled and neither run nor cleared
    enterTimeout,   \* enterTimeout.current (0 = undefined)
    exitTimeout,    \* exitTimeout.current  (0 = undefined)
    nextId,         \* the id window.setTimeout returns next
    mounted,        \* FALSE once the cleanup effect has run
    lastEvent,      \* history: the event handled last
    before,         \* history: the returned isOpen just before the call made last
    prior,          \* history: the call made before the last one, and the isOpen before it
    scene,          \* history: how the behaviour began (see Note)
    escTimers,      \* history: ids of the pending timers an Escape press scheduled
    ranEsc,         \* history: the event handled last was the run of such a timer
    style,          \* the style resolver: its inputs and what a render resolved
    avatar          \* the Avatar component: its props, its state and what it renders

\* the variables of the hooks and their history
kvars == <<props, isOpenState, isControlledRef, prevIsOpen, onOpenCalls, onCloseCalls,
           timers, enterTimeout, exitTimeout, nextId, mounted,
           lastEvent, before, prior, scene, escTimers, ranEsc>>

vars == <<kvars, style, avatar>>

dvars == <<timers, enterTimeout, exitTimeout, nextId, mounted>>

---------------------------------------------------------------------------
(* Bounds of the model *)

\* the largest delay (in ticks) a tooltip is configured with
MaxDelay == 1

\* the number of timers one behaviour may schedule
MaxTimers == 3

\* the number of callback invocations counted in the disclosure specification
MaxCalls == 3

---------------------------------------------------------------------------
(* Values *)

Tri == {"undefined", "true", "false"}

ToTri(b) == IF b THEN "true" ELSE "false"

\* JavaScript's Boolean(x) on undefined | boolean
Boolean(x) == x = "true"

Delays == {0, MaxDelay}

Keys == {"Escape", "Enter"}

---------------------------------------------------------------------------
(* Props *)

\* UseTooltipProps with the defaults of the destructuring applied.  onOpen and
\* onClose say whether the callback is supplied; isOpen is the external value.
TooltipProps ==
    [ isOpen : Tri, defaultIsOpen : BOOLEAN, onOpen : BOOLEAN, onClose : BOOLEAN,
      openDelay : Delays, closeDelay : Delays,
      closeOnClick : BOOLEAN, closeOnMouseDown : BOOLEAN, isDisabled : BOOLEAN ]

\* DisclosureHookProps: the tooltip fields keep their defaults
DisclosureHookProps ==
    { p \in TooltipProps :
        /\ p.openDelay = 0 /\ p.closeDelay = 0
        /\ p.closeOnClick /\ ~p.closeOnMouseDown /\ ~p.isDisabled }

---------------------------------------------------------------------------
(* useDisclosure *)

\* [isControlled, value]: isControlled was fixed when the hook was constructed;
\* a controlled hook is driven by the external value alone
useControllableProp(prop, state) ==
    <<isControlledRef, IF isControlledRef THEN prop ELSE ToTri(state)>>

\* the isControlled of useDisclosure.ts line 16
isControlled == useControllableProp(props.isOpen, isOpenState)[1]

\* isOpen read from the internal state whatever the hook is
isOpenValue_fromState(p, s) == ToTri(s)

\* the isOpen of useDisclosure.ts line 16, for given props and state
isOpenValue(p, s) == useControllableProp(p.isOpen, s)[2]

\* the isOpen the hook returns
isOpen == Boolean(isOpenValue(props, isOpenState))

\* the value remembered from before the latest change of the tracked value
usePrevious(old, new) == IF new # old THEN old ELSE prevIsOpen

\* the prevIsOpen the hook returns
PrevIsOpen == Boolean(prevIsOpen)

\* the render that follows a handler: usePrevious sees the new isOpen
Render ==
    prevIsOpen' = usePrevious(isOpenValue(props, isOpenState),
                              isOpenValue(props', isOpenState'))

\* the state setter of React.useState: a write to an unmounted component is dropped
setIsOpen(v) == isOpenState' = IF mounted THEN v ELSE isOpenState

\* onClose that writes the state of a controlled hook too
onClose_alwaysWrites ==
    /\ setIsOpen(FALSE)
    /\ onCloseCalls' = IF props.onClose THEN onCloseCalls + 1 ELSE onCloseCalls
    /\ UNCHANGED onOpenCalls

onClose ==
    /\ IF ~isControlled THEN setIsOpen(FALSE) ELSE UNCHANGED isOpenState
    /\ onCloseCalls' = IF props.onClose THEN onCloseCalls + 1 ELSE onCloseCalls
    /\ UNCHANGED onOpenCalls

\* onOpen that never writes the state
onOpen_keepsState ==
    /\ UNCHANGED isOpenState
    /\ onOpenCalls' = IF props.onOpen THEN onOpenCalls + 1 ELSE onOpenCalls
    /\ UNCHANGED onCloseCalls

\* onOpen that writes the state of a controlled hook too
onOpen_alwaysWrites ==
    /\ setIsOpen(TRUE)
    /\ onOpenCalls' = IF props.onOpen THEN onOpenCalls + 1 ELSE onOpenCalls
    /\ UNCHANGED onCloseCalls

\* onOpen that invokes the callback only when the hook was not open
onOpen_onlyWhenClosed ==
    /\ IF ~isControlled THEN setIsOpen(TRUE) ELSE UNCHANGED isOpenState
    /\ onOpenCalls' = IF props.onOpen /\ ~isOpen THEN onOpenCalls + 1 ELSE onOpenCalls
    /\ UNCHANGED onCloseCalls

onOpen ==
    /\ IF ~isControlled THEN setIsOpen(TRUE) ELSE UNCHANGED isOpenState
    /\ onOpenCalls' = IF props.onOpen THEN onOpenCalls + 1 ELSE onOpenCalls
    /\ UNCHANGED onCloseCalls

\* onToggle that decides on the internal state
onToggle_fromState == IF isOpenState THEN onClose ELSE onOpen

onToggle == IF isOpen THEN onClose ELSE onOpen

---------------------------------------------------------------------------
(* History bookkeeping (read by the properties only) *)

OpenTriggers == {"mouseenter", "focus", "show"}

CloseEvents == {"mouseleave", "blur", "click", "escape"}

\* the open timer of the first event is still waiting for its delay to elapse
FirstOpenPending == \E t \in timers : t.id = 1 /\ t.kind = "open" /\ t.left > 0

NoScene(st) == [st |-> st, ev |-> "none", open |-> FALSE, early |-> FALSE]

\* scene.st is "start" before the first event, "opened" when the first event was
\* an open trigger and nothing was handled since, "closed" when the event after
\* that open trigger was one of CloseEvents (scene.ev; scene.open is the isOpen
\* it saw, scene.early whether the open timer was still waiting) and no open
\* trigger was handled since, and "void" in every other case.
NextScene(ev) ==
    CASE scene.st = "start"  -> IF ev \in OpenTriggers THEN NoScene("opened") ELSE NoScene("void")
      [] scene.st = "opened" -> IF ev \in CloseEvents
                                THEN [st |-> "closed", ev |-> ev, open |-> isOpen,
                                      early |-> FirstOpenPending]
                                ELSE NoScene("void")
      [] scene.st = "closed" -> IF ev \in OpenTriggers THEN NoScene("void") ELSE scene
      [] OTHER -> scene

PendingIds(ts) == {t.id : t \in ts}

Note(ev) ==
    /\ lastEvent' = ev
    /\ scene' = NextScene(ev)
    /\ escTimers' = (IF ev = "escape" /\ nextId' # nextId
                     THEN escTimers \cup {nextId}
                     ELSE escTimers) \cap PendingIds(timers')
    /\ ranEsc' = (ev = "timeoutClose" /\ (escTimers \ PendingIds(timers')) # {})
    /\ UNCHANGED <<before, prior, style, avatar>>

NoteCall(ev) ==
    /\ lastEvent' = ev
    /\ before' = isOpen
    /\ prior' = [ev |-> lastEvent, open |-> before]
    /\ UNCHANGED <<scene, escTimers, ranEsc, style, avatar>>

---------------------------------------------------------------------------
(* The disclosure hook used on its own *)

\* no component is styled and no Avatar is rendered
NoStyle == [component |-> "none"]
NoAvatar == [rendered |-> FALSE]

InitHook(P) ==
    /\ props \in P
    /\ isOpenState = props.defaultIsOpen
    /\ isControlledRef = (props.isOpen # "undefined")
    /\ prevIsOpen = "undefined"
    /\ onOpenCalls = 0
    /\ onCloseCalls = 0
    /\ timers = {}
    /\ enterTimeout = 0
    /\ exitTimeout = 0
    /\ nextId = 1
    /\ mounted = TRUE
    /\ lastEvent = "init"
    /\ before = FALSE
    /\ prior = [ev |-> "init", open |-> FALSE]
    /\ scene = NoScene("start")
    /\ escTimers = {}
    /\ ranEsc = FALSE

InitOf(P) == InitHook(P) /\ style = NoStyle /\ avatar = NoAvatar

InitDisclosure == InitOf(DisclosureHookProps)

CallsLeft == onOpenCalls < MaxCalls /\ onCloseCalls < MaxCalls

CallOnOpen ==
    /\ CallsLeft
    /\ onOpen
    /\ UNCHANGED <<props, isControlledRef, dvars>>
    /\ Render
    /\ NoteCall("onOpen")

CallOnClose ==
    /\ CallsLeft
    /\ onClose
    /\ UNCHANGED <<props, isControlledRef, dvars>>
    /\ Render
    /\ NoteCall("onClose")

CallOnToggle ==
    /\ CallsLeft
    /\ onToggle
    /\ UNCHANGED <<props, isControlledRef, dvars>>
    /\ Render
    /\ NoteCall("onToggle")

\* the owner renders the hook again with another isOpen prop
SetIsOpenProp(v) ==
    /\ mounted
    /\ v # props.isOpen
    /\ props' = [props EXCEPT !.isOpen = v]
    /\ UNCHANGED <<isOpenState, isControlledRef, onOpenCalls, onCloseCalls, dvars>>
    /\ Render
    /\ NoteCall("props")

NextDisclosure ==
    \/ CallOnOpen
    \/ CallOnClose
    \/ CallOnToggle
    \/ \E v \in Tri : SetIsOpenProp(v)

SpecDisclosure == InitDisclosure /\ [][NextDisclosure]_vars

---------------------------------------------------------------------------
(* useTooltip *)

setTimeout(kind, delay) ==
    timers' = timers \cup {[id |-> nextId, kind |-> kind, left |-> delay]}

clearTimeout(ts, id) == {t \in ts : t.id # id}

\* openWithDelay without the isDisabled test
openWithDelay_whenDisabled ==
    /\ setTimeout("open", props.openDelay)
    /\ enterTimeout' = nextId
    /\ nextId' = nextId + 1
    /\ UNCHANGED exitTimeout

openWithDelay ==
    IF ~props.isDisabled
    THEN /\ setTimeout("open", props.openDelay)
         /\ enterTimeout' = nextId
         /\ nextId' = nextId + 1
         /\ UNCHANGED exitTimeout
    ELSE UNCHANGED <<timers, enterTimeout, exitTimeout, nextId>>

\* closeWithDelay that leaves the pending open alone
closeWithDelay_keepsOpen ==
    /\ setTimeout("close", props.closeDelay)
    /\ exitTimeout' = nextId
    /\ nextId' = nextId + 1
    /\ UNCHANGED enterTimeout

closeWithDelay ==
    /\ timers' = (IF enterTimeout # 0 THEN clearTimeout(timers, enterTimeout) ELSE timers)
                   \cup {[id |-> nextId, kind |-> "close", left |-> props.closeDelay]}
    /\ exitTimeout' = nextId
    /\ nextId' = nextId + 1
    /\ UNCHANGED enterTimeout

\* onClick that does not look at closeOnClick
onClick_always == closeWithDelay

onClick ==
    IF props.closeOnClick
    THEN closeWithDelay
    ELSE UNCHANGED <<timers, enterTimeout, exitTimeout, nextId>>

onMouseDown ==
    IF props.closeOnMouseDown
    THEN closeWithDelay
    ELSE UNCHANGED <<timers, enterTimeout, exitTimeout, nextId>>

\* onKeyDown that does not look at isOpen
onKeyDown_anyState(key) ==
    IF key = "Escape"
    THEN closeWithDelay
    ELSE UNCHANGED <<timers, enterTimeout, exitTimeout, nextId>>

onKeyDown(key) ==
    IF isOpen /\ key = "Escape"
    THEN closeWithDelay
    ELSE UNCHANGED <<timers, enterTimeout, exitTimeout, nextId>>

\* the cleanup of the effect with no dependencies
cleanup ==
    timers' = clearTimeout(clearTimeout(timers, enterTimeout), exitTimeout)

---------------------------------------------------------------------------
(* The events of a tooltip *)

\* the tooltips explored: onOpen and onClose are supplied together or not at
\* all, and defaultIsOpen (never read by a controlled hook) is only varied
\* for uncontrolled ones
TooltipConfigs ==
    { p \in TooltipProps :
        /\ p.onOpen = p.onClose
        /\ p.isOpen # "undefined" => ~p.defaultIsOpen }

Init == InitOf(TooltipConfigs)

hvars == <<props, isOpenState, isControlledRef, prevIsOpen, onOpenCalls, onCloseCalls, mounted>>

Delivered == mounted /\ nextId <= MaxTimers

MouseEnter == Delivered /\ openWithDelay /\ Note("mouseenter") /\ UNCHANGED hvars

Focus == Delivered /\ openWithDelay /\ Note("focus") /\ UNCHANGED hvars

MouseLeave == Delivered /\ closeWithDelay /\ Note("mouseleave") /\ UNCHANGED hvars

Blur == Delivered /\ closeWithDelay /\ Note("blur") /\ UNCHANGED hvars

Click == Delivered /\ onClick /\ Note("click") /\ UNCHANGED hvars

MouseDown == Delivered /\ onMouseDown /\ Note("mousedown") /\ UNCHANGED hvars

\* the show and hide the hook returns, called by the owner
Show == Delivered /\ openWithDelay /\ Note("show") /\ UNCHANGED hvars

Hide == Delivered /\ closeWithDelay /\ Note("hide") /\ UNCHANGED hvars

KeyDown(key) ==
    /\ Delivered
    /\ onKeyDown(key)
    /\ Note(IF key = "Escape" THEN "escape" ELSE "otherkey")
    /\ UNCHANGED hvars

\* the owner renders the tooltip again with another isDisabled
SetIsDisabled(b) ==
    /\ mounted
    /\ b # props.isDisabled
    /\ props' = [props EXCEPT !.isDisabled = b]
    /\ UNCHANGED <<isOpenState, isControlledRef, prevIsOpen, onOpenCalls, onCloseCalls,
                   dvars, lastEvent, before, prior, scene, escTimers, ranEsc, style, avatar>>

\* a due open timer runs its callback, the onOpen of the disclosure
TimeoutOpen(t) ==
    /\ t \in timers /\ t.kind = "open" /\ t.left = 0
    /\ timers' = timers \ {t}
    /\ onOpen
    /\ UNCHANGED <<props, isControlledRef, enterTimeout, exitTimeout, nextId, mounted>>
    /\ Render
    /\ Note("timeoutOpen")

\* a due close timer runs its callback, the onClose of the disclosure
TimeoutClose(t) ==
    /\ t \in timers /\ t.kind = "close" /\ t.left = 0
    /\ timers' = timers \ {t}
    /\ onClose
    /\ UNCHANGED <<props, isControlledRef, enterTimeout, exitTimeout, nextId, mounted>>
    /\ Render
    /\ Note("timeoutClose")

\* one unit of time passes
Tick ==
    /\ timers # {}
    /\ \A t \in timers : t.left > 0
    /\ timers' = {[t EXCEPT !.left = @ - 1] : t \in timers}
    /\ lastEvent' = "tick"
    /\ ranEsc' = FALSE
    /\ UNCHANGED <<hvars, enterTimeout, exitTimeout, nextId, before, prior, scene, escTimers,
                   style, avatar>>

Unmount ==
    /\ mounted
    /\ cleanup
    /\ mounted' = FALSE
    /\ Note("unmount")
    /\ UNCHANGED <<props, isOpenState, isControlledRef, prevIsOpen, onOpenCalls,
                   onCloseCalls, enterTimeout, exitTimeout, nextId>>

Next ==
    \/ MouseEnter
    \/ Focus
    \/ MouseLeave
    \/ Blur
    \/ Click
    \/ MouseDown
    \/ Show
    \/ Hide
    \/ \E key \in Keys : KeyDown(key)
    \/ \E t \in timers : TimeoutOpen(t)
    \/ \E t \in timers : TimeoutClose(t)
    \/ Tick
    \/ Unmount

Spec == Init /\ [][Next]_vars

\* a tooltip whose owner also changes isDisabled while it lives
DisabledConfigs ==
    {p \in TooltipConfigs : p.onOpen /\ p.closeOnClick /\ ~p.closeOnMouseDown}

InitDisabled == InitOf(DisabledConfigs)

NextDisabled ==
    \/ Next
    \/ \E b \in BOOLEAN : SetIsDisabled(b)

SpecDisabled == InitDisabled /\ [][NextDisabled]_vars

\* a controlled tooltip: the owner supplies isOpen and renders the tooltip
\* again with another value of it
ControlledConfigs ==
    {p \in TooltipConfigs :
        p.isOpen # "undefined" /\ ~p.isDisabled /\ p.closeOnClick /\ ~p.closeOnMouseDown}

InitControlled == InitOf(ControlledConfigs)

SetTooltipIsOpen(v) ==
    /\ mounted
    /\ v # props.isOpen
    /\ props' = [props EXCEPT !.isOpen = v]
    /\ UNCHANGED <<isOpenState, isControlledRef, onOpenCalls, onCloseCalls, dvars>>
    /\ Render
    /\ lastEvent' = "props"
    /\ ranEsc' = FALSE
    /\ UNCHANGED <<before, prior, scene, escTimers, style, avatar>>

NextControlled ==
    \/ Next
    \/ \E v \in {"true", "false"} : SetTooltipIsOpen(v)

SpecControlled == InitControlled /\ [][NextControlled]_vars

TypeOK ==
    /\ props \in TooltipProps
    /\ isOpenState \in BOOLEAN
    /\ isControlledRef \in BOOLEAN
    /\ prevIsOpen \in Tri
    /\ onOpenCalls \in 0..(MaxTimers + MaxCalls)
    /\ onCloseCalls \in 0..(MaxTimers + MaxCalls)
    /\ \A t \in timers : t.id \in 1..MaxTimers /\ t.kind \in {"open", "close"} /\ t.left \in 0..MaxDelay
    /\ enterTimeout \in 0..MaxTimers
    /\ exitTimeout \in 0..MaxTimers
    /\ nextId \in 1..(MaxTimers + 1)
    /\ mounted \in BOOLEAN

---------------------------------------------------------------------------
(* Properties of useDisclosure, checked under SpecDisclosure *)

\* what one open() does to the state and the callback counts
OpenEffect ==
    /\ onOpenCalls' = onOpenCalls + (IF props.onOpen THEN 1 ELSE 0)
    /\ onCloseCalls' = onCloseCalls
    /\ isOpenState' = IF isControlled THEN isOpenState ELSE TRUE

\* what one close() does to the state and the callback counts
CloseEffect ==
    /\ onCloseCalls' = onCloseCalls + (IF props.onClose THEN 1 ELSE 0)
    /\ onOpenCalls' = onOpenCalls
    /\ isOpenState' = IF isControlled THEN isOpenState ELSE FALSE

\* C5: an uncontrolled disclosure with no config starts closed; after open()
\* isOpen is true, and prevIsOpen is false when it was closed before; after
\* close() isOpen is false, and prevIsOpen is true when it was open before. In
\* general, right after a call or render that changed isOpen, prevIsOpen is the
\* value isOpen had just before.
C5_PrevIsOpen ==
    /\ ~isControlled =>
         /\ (lastEvent = "init" /\ ~props.defaultIsOpen) => ~isOpen
         /\ lastEvent = "onOpen" => (isOpen /\ (~before => ~PrevIsOpen))
         /\ lastEvent = "onClose" => (~isOpen /\ (before => PrevIsOpen))
    /\ (lastEvent # "init" /\ before # isOpen) => PrevIsOpen = before

\* C5 witness: created with no config, opened and then closed
C5_Witness ==
    /\ props.isOpen = "undefined" /\ ~props.defaultIsOpen /\ ~props.onOpen /\ ~props.onClose
    /\ prior.ev = "onOpen" /\ ~prior.open
    /\ lastEvent = "onClose" /\ before
    /\ ~isOpen /\ PrevIsOpen

\* C6: a call of open() or close() on a controlled disclosure leaves the
\* returned isOpen equal to the external value and the internal state as it
\* was, and invokes the matching callback when it is supplied.
C6_ControlledCall ==
    [][ (isControlled /\ lastEvent' \in {"onOpen", "onClose"}) =>
          /\ isOpen' = Boolean(props.isOpen)
          /\ isOpenState' = isOpenState
          /\ lastEvent' = "onOpen" => OpenEffect
          /\ lastEvent' = "onClose" => CloseEffect ]_vars

\* C6 witness: close() on a hook controlled with isOpen true has invoked onClose
\* and the hook still returns true
C6_Witness ==
    /\ isControlled /\ props.isOpen = "true" /\ props.onClose
    /\ lastEvent = "onClose" /\ onCloseCalls = 1
    /\ isOpen /\ isOpenState = props.defaultIsOpen

\* C7: isControlled never changes after construction, and a hook constructed
\* as controlled never writes nor reads its internal state, also when the
\* external isOpen has become undefined.
C7_StaysControlled ==
    /\ [][isControlled' = isControlled]_vars
    /\ [](isControlled => /\ isOpen = Boolean(props.isOpen)
                          /\ isOpenState = props.defaultIsOpen)

\* C7 witness: constructed as controlled, the prop has become undefined, and
\* open() was called after that
C7_Witness ==
    /\ isControlled /\ props.isOpen = "undefined" /\ props.onOpen
    /\ prior.ev = "props" /\ lastEvent = "onOpen" /\ onOpenCalls > 0
    /\ ~isOpen /\ isOpenState = props.defaultIsOpen

\* C8: every open() invokes onOpen exactly once when it is supplied and not at
\* all otherwise, leaves onClose alone, and sets the internal state to true
\* exactly when the hook is uncontrolled; close() likewise with onClose and false.
C8_CallEffects ==
    [][ /\ lastEvent' = "onOpen" => OpenEffect
        /\ lastEvent' = "onClose" => CloseEffect ]_vars

\* C8 witness: open() has been called twice in a row on an uncontrolled hook,
\* the second time while it was open, and onOpen ran both times
C8_Witness ==
    /\ ~isControlled /\ props.onOpen
    /\ prior.ev = "onOpen" /\ lastEvent = "onOpen" /\ before
    /\ onOpenCalls = 2 /\ onCloseCalls = 0 /\ isOpen

\* C9: toggle() does what close() does when the returned isOpen is true and
\* what open() does otherwise; two toggles in a row on an uncontrolled hook
\* bring isOpen back to what it was.
C9_Toggle ==
    /\ [][ lastEvent' = "onToggle" => IF isOpen THEN CloseEffect ELSE OpenEffect ]_vars
    /\ []((~isControlled /\ lastEvent = "onToggle" /\ prior.ev = "onToggle")
            => isOpen = prior.open)

\* C9 witness: two toggles in a row on an uncontrolled hook that was open
C9_Witness ==
    /\ ~isControlled /\ props.onOpen /\ props.onClose
    /\ prior.ev = "onToggle" /\ prior.open
    /\ lastEvent = "onToggle" /\ ~before
    /\ isOpen /\ onOpenCalls = 1 /\ onCloseCalls = 1

---------------------------------------------------------------------------
(* Properties of useTooltip, checked under Spec *)

PendingOpen == {t \in timers : t.kind = "open"}

PendingClose == {t \in timers : t.kind = "close"}

\* the event handled last called closeWithDelay
CloseTriggerHandled ==
    \/ lastEvent \in {"mouseleave", "blur"}
    \/ lastEvent = "click" /\ props.closeOnClick
    \/ lastEvent = "mousedown" /\ props.closeOnMouseDown
    \/ lastEvent = "escape" /\ isOpen

\* the open scheduled by the single open trigger never ran
SingleOpenNeverRan ==
    /\ lastEvent # "timeoutOpen"
    /\ onOpenCalls = 0
    /\ isOpenState = props.defaultIsOpen \/ ~isOpenState

\* the behaviour began with one open trigger and then, before openDelay had
\* elapsed, one of mouse-leave, blur, click (with closeOnClick) and Escape, and
\* no open trigger was handled since
SingleOpenThenClose ==
    /\ scene.st = "closed"
    /\ scene.early
    /\ scene.ev = "click" => props.closeOnClick

\* C1 as stated: after a single open trigger and then a close trigger before
\* openDelay has elapsed (mouse-leave, blur, click with closeOnClick, or
\* Escape), the tooltip never opens and onOpen is never invoked.
C1_AsStated == SingleOpenThenClose => SingleOpenNeverRan

\* C1, amended: the same, where an Escape press counts as a close trigger only
\* when the tooltip was open when the key was pressed.
C1_SingleOpenCanceled ==
    (SingleOpenThenClose /\ (scene.ev = "escape" => scene.open)) => SingleOpenNeverRan

\* C1 witness: a mouse-leave canceled the single pending open, and the close it
\* scheduled has run
C1_Witness ==
    /\ SingleOpenThenClose
    /\ scene.ev = "mouseleave"
    /\ props.openDelay > 0
    /\ lastEvent = "timeoutClose"
    /\ timers = {}

\* C2: right after any close trigger is handled, no scheduled open timer is
\* still pending, whatever events came before.
C2_NoOpenPendingAfterClose == CloseTriggerHandled => PendingOpen = {}

\* C3: right after an open trigger is handled by an enabled tooltip, no close
\* timer scheduled earlier is still pending.
C3_NoClosePendingAfterOpen ==
    (lastEvent \in OpenTriggers /\ ~props.isDisabled) => PendingClose = {}

\* C4: once the tooltip is unmounted no timer it scheduled is left to run.
C4_NoTimerAfterUnmount == ~mounted => timers = {}

\* an Escape press made while the tooltip is open has scheduled a close that
\* runs after closeDelay
EscapeSchedulesClose ==
    (lastEvent = "escape" /\ isOpen) =>
        \E t \in timers : t.id = exitTimeout /\ t.kind = "close" /\ t.left = props.closeDelay

\* C10 as stated: an Escape press while the tooltip is open schedules a close
\* after closeDelay, and with closeDelay = 0 the tooltip is closed once that
\* timer has run.
C10_AsStated ==
    /\ EscapeSchedulesClose
    /\ (ranEsc /\ props.closeDelay = 0) => ~isOpen

\* C10, amended: an Escape press while the tooltip is open schedules a close
\* after closeDelay; once that timer has run, a mounted uncontrolled tooltip is
\* closed and a controlled one still returns its isOpen prop; an Escape press
\* while the tooltip is not open, and any other key, schedule nothing and
\* cancel nothing.
C10_Escape ==
    /\ [](EscapeSchedulesClose)
    /\ []((ranEsc /\ mounted /\ ~isControlled) => ~isOpen)
    /\ []((ranEsc /\ isControlled) => isOpen = Boolean(props.isOpen))
    /\ [][ (lastEvent' = "otherkey" \/ (lastEvent' = "escape" /\ ~isOpen))
             => UNCHANGED <<timers, enterTimeout, exitTimeout, nextId>> ]_vars

\* C10 witness: with closeDelay = 0, the close an Escape press scheduled on an
\* open uncontrolled tooltip has run and closed it
C10_Witness ==
    /\ ranEsc /\ mounted /\ ~isControlled
    /\ props.closeDelay = 0 /\ props.onClose
    /\ ~isOpen /\ onCloseCalls = 1

\* the event handled last scheduled a close that runs after closeDelay
CloseScheduled ==
    \E t \in timers :
        /\ t.id = exitTimeout /\ t.id = nextId - 1
        /\ t.kind = "close" /\ t.left = props.closeDelay

\* the open that enterTimeout.current names is not pending
LastOpenCanceled == \A t \in timers : t.id # enterTimeout

\* C11 as stated: a pointer-down on the trigger, and a click when closeOnClick
\* is true, schedule a close after closeDelay and cancel a pending open.
C11_AsStated ==
    (lastEvent = "mousedown" \/ (lastEvent = "click" /\ props.closeOnClick))
        => (CloseScheduled /\ LastOpenCanceled)

\* C11, amended: a pointer-down does so when closeOnMouseDown is true and a
\* click when closeOnClick is true; the open canceled is the one scheduled
\* last; a pointer-down without closeOnMouseDown and a click without
\* closeOnClick schedule nothing and cancel nothing.
C11_ClickAndMouseDown ==
    /\ [](((lastEvent = "mousedown" /\ props.closeOnMouseDown)
             \/ (lastEvent = "click" /\ props.closeOnClick))
            => (CloseScheduled /\ LastOpenCanceled))
    /\ [][ ((lastEvent' = "mousedown" /\ ~props.closeOnMouseDown)
              \/ (lastEvent' = "click" /\ ~props.closeOnClick))
             => UNCHANGED <<timers, enterTimeout, exitTimeout, nextId>> ]_vars

\* C11 witness: a click with closeOnClick has canceled the open a mouse-enter
\* scheduled and has scheduled a close
C11_Witness ==
    /\ lastEvent = "click" /\ props.closeOnClick
    /\ props.openDelay > 0 /\ props.closeDelay > 0
    /\ enterTimeout = 1 /\ exitTimeout = 2
    /\ timers = {[id |-> 2, kind |-> "close", left |-> props.closeDelay]}
    /\ onOpenCalls = 0

\* C12: while isDisabled is true an open trigger (mouse-enter, focus, show())
\* schedules nothing, and a disabled tooltip with no pending open keeps having
\* none, is not opened by the hook and has onOpen not invoked.
C12_DisabledStaysClosed ==
    /\ [][ (props.isDisabled /\ lastEvent' \in OpenTriggers)
             => UNCHANGED <<timers, enterTimeout, exitTimeout, nextId>> ]_vars
    /\ [][ (props.isDisabled /\ props'.isDisabled /\ PendingOpen = {})
             => /\ PendingOpen' = {}
                /\ onOpenCalls' = onOpenCalls
                /\ isOpen' => isOpen ]_vars

\* C12 witness: a tooltip that was enabled and then disabled, closed and with
\* no timer pending, has handled show() and is still closed with nothing scheduled
C12_Witness ==
    /\ props.isDisabled /\ ~isControlled /\ mounted
    /\ lastEvent = "show"
    /\ nextId = 3 /\ timers = {}
    /\ ~isOpen

\* C13: after teardown a call of the disclosure's open or close operation is a
\* no-op: the state does not change and neither onOpen nor onClose is invoked.
C13_NoOpAfterTeardown ==
    [][ ~mounted => UNCHANGED <<isOpenState, onOpenCalls, onCloseCalls>> ]_vars

\* C20: in an uncontrolled, enabled tooltip whose last event was a close
\* trigger, once every timer has fired the tooltip is closed.
C20_ClosedWhenQuiet ==
    ( /\ mounted /\ ~isControlled /\ ~props.isDisabled
      /\ lastEvent \in {"timeoutOpen", "timeoutClose"}
      /\ exitTimeout # 0 /\ exitTimeout = nextId - 1
      /\ timers = {} )
        => ~isOpen

---------------------------------------------------------------------------
(* The style resolver: useInputStyle (Input/styles.ts, lines 1-225) and the *)
(* styles of Button (part_001, lines 18-206).                               *)
(*                                                                         *)
(* A style value is a sequence of strings: a literal is the one string, a  *)
(* value read from the theme is the path it was read at after "theme".  A  *)
(* key with dots is kept as the sequence of its segments.  A fragment is a *)
(* function from property names (and selectors) to values.                 *)

Lit(s) == <<s>>
Undefined == <<"undefined">>
Null == <<"null">>

\* the object {} ; spreading undefined, null or false adds no key either
EmptyFragment == [k \in {} |-> Null]

\* object spread {...a, ...b}
Merge(a, b) ==
    [k \in (DOMAIN a) \cup (DOMAIN b) |-> IF k \in DOMAIN b THEN b[k] ELSE a[k]]

Modes == {"light", "dark"}
Shades == {"50", "100", "200", "300", "400", "500", "600", "700", "900"}
ThemeColors == {"gray", "alpha", "blue"}
SizeKeys == {"sm", "md", "lg"}

\* a theme, as the set of the token paths it has a value at
ThemeOf(colors, sizes, shadows) ==
    {<<"colors", c, sh>> : c \in colors, sh \in Shades}
        \cup {<<"sizes", "button", z>> : z \in sizes}
        \cup {<<"shadows", w>> : w \in shadows}

Themes ==
    { ThemeOf(cs, zs, ws) :
        cs \in SUBSET ThemeColors, zs \in {{}, {"md"}, SizeKeys}, ws \in {{"focusring"}} }

\* the value a theme holds at a path
ThemeValue(path) == <<"theme">> \o path

\* styled-system get(obj, key, fallback), with obj the theme below root
get(theme, root, key, fallback) ==
    IF (root \o key) \in theme THEN ThemeValue(root \o key) ELSE fallback

(* Input *)

readOnly ==
    [_readOnly |-> [bg |-> Lit("transparent"), boxShadow |-> Lit("none !important"),
                    userSelect |-> Lit("all")]]

outlinedStyle(p) ==
    LET bg == [light |-> Lit("white"), dark |-> Lit("whiteAlpha.100")]
        borderColor == [light |-> Lit("inherit"), dark |-> Lit("whiteAlpha.50")]
        hoverColor == [light |-> Lit("gray.300"), dark |-> Lit("whiteAlpha.200")]
        _focusBorderColor == get(p.theme, <<"colors">>, p.focusBorderColor, p.focusBorderColor)
        _errorBorderColor == get(p.theme, <<"colors">>, p.errorBorderColor, p.errorBorderColor)
    IN  Merge(readOnly,
              [border |-> Lit("1px"),
               borderColor |-> borderColor[p.colorMode],
               bg |-> bg[p.colorMode],
               _hover |-> [borderColor |-> hoverColor[p.colorMode]],
               _disabled |-> [opacity |-> Lit("0.4"), cursor |-> Lit("not-allowed")],
               _focus |-> [borderColor |-> _focusBorderColor,
                           boxShadow |-> <<"0 0 0 1px">> \o _focusBorderColor],
               _invalid |-> [borderColor |-> _errorBorderColor,
                             boxShadow |-> <<"0 0 0 1px">> \o _errorBorderColor]])

filledStyle(p) ==
    LET bg == [light |-> Lit("gray.100"), dark |-> Lit("whiteAlpha.50")]
        hoverColor == [light |-> Lit("gray.200"), dark |-> Lit("whiteAlpha.100")]
        _focusBorderColor == get(p.theme, <<"colors">>, p.focusBorderColor, p.focusBorderColor)
        _errorBorderColor == get(p.theme, <<"colors">>, p.errorBorderColor, p.errorBorderColor)
    IN  Merge(readOnly,
              [border |-> Lit("2px"),
               borderColor |-> Lit("transparent"),
               bg |-> bg[p.colorMode],
               _hover |-> [bg |-> hoverColor[p.colorMode]],
               _disabled |-> [opacity |-> Lit("0.4"), cursor |-> Lit("not-allowed")],
               _focus |-> [bg |-> Lit("transparent"), borderColor |-> _focusBorderColor],
               _invalid |-> [borderColor |-> _errorBorderColor]])

flushedStyle(p) ==
    LET _focusBorderColor == get(p.theme, <<"colors">>, p.focusBorderColor, p.focusBorderColor)
        _errorBorderColor == get(p.theme, <<"colors">>, p.errorBorderColor, p.errorBorderColor)
    IN  Merge(readOnly,
              [borderBottom |-> Lit("2px"),
               borderColor |-> Lit("inherit"),
               rounded |-> Lit("0"),
               px |-> Undefined,
               bg |-> Lit("transparent"),
               _focus |-> [borderColor |-> _focusBorderColor],
               _invalid |-> [borderColor |-> _errorBorderColor]])

unstyledStyle == [bg |-> Lit("transparent"), px |-> Undefined, height |-> Undefined]

InputVariants == {"flushed", "unstyled", "filled", "outline"}

variantProps(p) ==
    CASE p.variant = "flushed"  -> flushedStyle(p)
      [] p.variant = "unstyled" -> unstyledStyle
      [] p.variant = "filled"   -> filledStyle(p)
      [] p.variant = "outline"  -> outlinedStyle(p)
      [] OTHER                  -> EmptyFragment

baseProps ==
    [display |-> Lit("flex"), alignItems |-> Lit("center"), position |-> Lit("relative"),
     transition |-> Lit("all 0.2s"), outline |-> Lit("none")]

inputSizes ==
    [lg |-> [fontSize |-> Lit("lg"), px |-> Lit("4"), height |-> Lit("12"),
             lineHeight |-> Lit("3rem"), rounded |-> Lit("md")],
     md |-> [fontSize |-> Lit("md"), px |-> Lit("4"), height |-> Lit("10"),
             lineHeight |-> Lit("2.5rem"), rounded |-> Lit("md")],
     sm |-> [fontSize |-> Lit("sm"), px |-> Lit("3"), height |-> Lit("8"),
             lineHeight |-> Lit("2rem"), rounded |-> Lit("sm")]]

\* inputSizes[props.size]: undefined, which spreads to nothing, for any other key
sizeProps(p) ==
    IF p.size \in DOMAIN inputSizes THEN inputSizes[p.size] ELSE EmptyFragment

\* useInputStyle with the size fragment spread after the variant fragment
useInputStyle_sizeLast(p) ==
    Merge(Merge(Merge([width |-> IF p.isFullWidth THEN Lit("100%") ELSE Undefined],
                      baseProps),
                variantProps(p)),
          sizeProps(p))

useInputStyle(p) ==
    Merge(Merge(Merge([width |-> IF p.isFullWidth THEN Lit("100%") ELSE Undefined],
                      baseProps),
                sizeProps(p)),
          variantProps(p))

(* Button *)

\* themeGet(path)(props): no fallback is passed, so the fallback is null
themeGet(path, p) == get(p.theme, <<>>, path, Null)

\* the selectors under which a fragment nests declarations
Selectors == {"hover", "active", "disabled", "focus"}

\* declarations of one rule, the later ones winning; a null or undefined
\* value declares nothing
Declare(a, b) ==
    [k \in (DOMAIN a) \cup (DOMAIN b) |->
        IF k \notin DOMAIN b THEN a[k]
        ELSE IF k \notin DOMAIN a THEN b[k]
        ELSE IF b[k] \in {Null, Undefined} THEN a[k] ELSE b[k]]

\* css(a, b) and the styled template: the rules of b come after those of a
Cascade(a, b) ==
    [k \in (DOMAIN a) \cup (DOMAIN b) |->
        IF k \notin DOMAIN b THEN a[k]
        ELSE IF k \notin DOMAIN a THEN b[k]
        ELSE IF k \in Selectors THEN Declare(a[k], b[k])
        ELSE IF b[k] \in {Null, Undefined} THEN a[k] ELSE b[k]]

baseStyle ==
    [display |-> Lit("inline-flex"), alignItems |-> Lit("center"),
     justifyContent |-> Lit("center"), transition |-> Lit("all 250ms"),
     userSelect |-> Lit("none"), position |-> Lit("relative"),
     whiteSpace |-> Lit("nowrap"), verticalAlign |-> Lit("middle"),
     lineHeight |-> Lit("1.2")]

unstyledButton ==
    [userSelect |-> Lit("inherit"), background |-> Lit("none"), border |-> Lit("0"),
     color |-> Lit("inherit"), display |-> Lit("inline"), font |-> Lit("inherit"),
     lineHeight |-> Lit("inherit"), margin |-> Lit("0"), padding |-> Lit("0"),
     textAlign |-> Lit("inherit")]

themedSolidColors(p) ==
    [light |-> [color |-> Lit("inherit"),
                backgroundColor |-> themeGet(<<"colors", "gray", "100">>, p),
                hover |-> [backgroundColor |-> themeGet(<<"colors", "gray", "200">>, p)],
                active |-> [backgroundColor |-> themeGet(<<"colors", "gray", "300">>, p)]],
     dark |->  [color |-> themeGet(<<"colors", "alpha", "900">>, p),
                backgroundColor |-> themeGet(<<"colors", "alpha", "200">>, p),
                hover |-> [backgroundColor |-> themeGet(<<"colors", "alpha", "300">>, p)],
                active |-> [backgroundColor |-> themeGet(<<"colors", "alpha", "400">>, p)]]]

\* solidColorStyle that takes the themed colors for every color scheme
solidColorStyle_themedAlways(p) ==
    Merge([color |-> Lit("#fff"),
           backgroundColor |-> themeGet(<<"colors", p.buttonColor, "500">>, p),
           hover |-> [backgroundColor |-> themeGet(<<"colors", p.buttonColor, "600">>, p)],
           active |-> [backgroundColor |-> themeGet(<<"colors", p.buttonColor, "700">>, p)]],
          themedSolidColors(p)[p.mode])

solidColorStyle(p) ==
    Merge([color |-> Lit("#fff"),
           backgroundColor |-> themeGet(<<"colors", p.buttonColor, "500">>, p),
           hover |-> [backgroundColor |-> themeGet(<<"colors", p.buttonColor, "600">>, p)],
           active |-> [backgroundColor |-> themeGet(<<"colors", p.buttonColor, "700">>, p)]],
          IF p.buttonColor = "gray" THEN themedSolidColors(p)[p.mode] ELSE EmptyFragment)

themedGhostButton(p) ==
    [light |-> [color |-> Lit("inherit"),
                hover |-> [backgroundColor |-> themeGet(<<"colors", "gray", "100">>, p)],
                active |-> [backgroundColor |-> themeGet(<<"colors", "gray", "200">>, p)]],
     dark |->  [color |-> themeGet(<<"colors", "alpha", "900">>, p),
                hover |-> [backgroundColor |-> themeGet(<<"colors", "alpha", "200">>, p)],
                active |-> [backgroundColor |-> themeGet(<<"colors", "alpha", "300">>, p)]]]

ghostColorStyle(p) ==
    Merge([color |-> themeGet(<<"colors", p.buttonColor, "500">>, p),
           backgroundColor |-> Lit("transparent"),
           hover |-> [backgroundColor |-> themeGet(<<"colors", p.buttonColor, "50">>, p)],
           active |-> [backgroundColor |-> themeGet(<<"colors", p.buttonColor, "100">>, p)]],
          IF p.buttonColor = "gray" THEN themedGhostButton(p)[p.mode] ELSE EmptyFragment)

outlineColorStyle(p) ==
    Cascade(ghostColorStyle(p),
            Merge([borderWidth |-> Lit("1"),
                   borderColor |-> themeGet(<<"colors", p.buttonColor, "200">>, p)],
                  IF p.buttonColor = "gray"
                  THEN [borderColor |->
                            IF p.mode = "dark"
                            THEN themeGet(<<"colors", "alpha", "400">>, p)
                            ELSE themeGet(<<"colors", p.buttonColor, "200">>, p)]
                  ELSE EmptyFragment))

linkStyle(p) ==
    [padding |-> Lit("0"), height |-> Lit("auto"), lineHeight |-> Lit("normal"),
     color |-> themeGet(<<"colors", p.buttonColor, "600">>, p),
     hover |-> [textDecoration |-> Lit("underline")],
     active |-> [color |-> themeGet(<<"colors", p.buttonColor, "700">>, p)]]

ButtonVariants == {"solid", "outline", "ghost", "link", "unstyled"}

\* variantStyle that treats any other variant as solid, silently
variantStyle_otherSolid(p) ==
    [css |-> IF p.buttonVariant = "unstyled" THEN unstyledButton ELSE solidColorStyle(p),
     warn |-> 0]

\* the fragment variantStyle returns and the number of console.warn calls it makes
variantStyle(p) ==
    CASE p.buttonVariant = "solid"    -> [css |-> solidColorStyle(p), warn |-> 0]
      [] p.buttonVariant = "outline"  -> [css |-> outlineColorStyle(p), warn |-> 0]
      [] p.buttonVariant = "ghost"    -> [css |-> ghostColorStyle(p), warn |-> 0]
      [] p.buttonVariant = "link"     -> [css |-> linkStyle(p), warn |-> 0]
      [] p.buttonVariant = "unstyled" -> [css |-> unstyledButton, warn |-> 0]
      [] OTHER                        -> [css |-> EmptyFragment, warn |-> 1]

\* the object the theme holds at sizes.button.<size>: fontSize, padding, height
SizeObject(v) ==
    IF v = Null
    THEN EmptyFragment
    ELSE [fontSize |-> v \o <<"fontSize">>, padding |-> v \o <<"padding">>,
          height |-> v \o <<"height">>]

sizeStyle(p) ==
    Merge(SizeObject(themeGet(<<"sizes", "button", p.buttonSize>>, p)),
          IF p.isFullWidth THEN [width |-> Lit("100%")] ELSE EmptyFragment)

disabledStyle ==
    [disabled |-> [opacity |-> Lit("0.5"), cursor |-> Lit("not-allowed"),
                   boxShadow |-> Lit("none")]]

focusStyle(p) == [focus |-> [boxShadow |-> themeGet(<<"shadows", "focusring">>, p)]]

StyledButton(p) ==
    Cascade(Cascade(Cascade(Cascade(baseStyle, disabledStyle), focusStyle(p)),
                    sizeStyle(p)),
            variantStyle(p).css)

\* Button.defaultProps, taken for the props that are not passed
defaultProps(p) ==
    [p EXCEPT !.buttonColor = IF @ = "undefined" THEN "gray" ELSE @,
              !.buttonSize = IF @ = "undefined" THEN "md" ELSE @,
              !.buttonVariant = IF @ = "undefined" THEN "solid" ELSE @]

(* One component is rendered with its props and the theme *)

InputProps ==
    [variant : InputVariants \cup {"bogus", "undefined"},
     size : SizeKeys \cup {"xl", "undefined"},
     isFullWidth : BOOLEAN,
     focusBorderColor : {<<"blue", "500">>, <<"#fff">>},
     errorBorderColor : {<<"gray", "300">>, <<"tomato">>},
     colorMode : Modes,
     theme : Themes]

ButtonProps ==
    [buttonVariant : ButtonVariants \cup {"bogus", "undefined"},
     buttonSize : SizeKeys \cup {"xl", "undefined"},
     buttonColor : {"gray", "blue", "#fff", "undefined"},
     isFullWidth : BOOLEAN,
     mode : Modes,
     theme : Themes]

Unresolved(c, p) ==
    [component |-> c, props |-> p, done |-> FALSE, size |-> EmptyFragment,
     variant |-> EmptyFragment, out |-> EmptyFragment, warnings |-> 0]

\* a quiet hook beside the component that is styled
IdleProps ==
    [isOpen |-> "undefined", defaultIsOpen |-> FALSE, onOpen |-> FALSE, onClose |-> FALSE,
     openDelay |-> 0, closeDelay |-> 0, closeOnClick |-> TRUE, closeOnMouseDown |-> FALSE,
     isDisabled |-> FALSE]

InitStyle ==
    /\ InitHook({IdleProps})
    /\ avatar = NoAvatar
    /\ style \in {Unresolved("Input", p) : p \in InputProps}
                    \cup {Unresolved("Button", defaultProps(p)) : p \in ButtonProps}

RenderInput ==
    /\ style.component = "Input"
    /\ ~style.done
    /\ style' = [style EXCEPT !.done = TRUE,
                              !.size = sizeProps(style.props),
                              !.variant = variantProps(style.props),
                              !.out = useInputStyle(style.props)]
    /\ UNCHANGED <<kvars, avatar>>

RenderButton ==
    /\ style.component = "Button"
    /\ ~style.done
    /\ style' = [style EXCEPT !.done = TRUE,
                              !.size = sizeStyle(style.props),
                              !.variant = variantStyle(style.props).css,
                              !.warnings = @ + variantStyle(style.props).warn,
                              !.out = StyledButton(style.props)]
    /\ UNCHANGED <<kvars, avatar>>

NextStyle == RenderInput \/ RenderButton

SpecStyle == InitStyle /\ [][NextStyle]_vars

---------------------------------------------------------------------------
(* Properties of the style resolver, checked under SpecStyle *)

InputDone == style.component = "Input" /\ style.done
ButtonDone == style.component = "Button" /\ style.done

\* C14: for a variant outside {solid, outline, ghost, link, unstyled} the Button
\* variantStyle returns the empty fragment and warns exactly once; for a variant
\* outside {flushed, unstyled, filled, outline} the Input variantProps returns
\* the empty fragment.
C14_UnknownVariant ==
    /\ (ButtonDone /\ style.props.buttonVariant \notin ButtonVariants)
           => (style.variant = EmptyFragment /\ style.warnings = 1)
    /\ (InputDone /\ style.props.variant \notin InputVariants)
           => style.variant = EmptyFragment

\* C14 witness: a Button rendered with the variant "bogus"
C14_Witness ==
    /\ ButtonDone
    /\ style.props.buttonVariant = "bogus"
    /\ style.props.buttonSize = "md" /\ <<"sizes", "button", "md">> \in style.props.theme
    /\ style.warnings = 1
    /\ DOMAIN style.variant = {}
    /\ "height" \in DOMAIN style.out

\* C15: the variant fragment is merged after the size fragment: a key both set
\* has the variant's value in the result, a key only the size sets has the
\* size's value, and Input variant flushed has rounded 0 and px undefined for
\* every size.
C15_VariantOverSize ==
    (InputDone \/ ButtonDone) =>
        /\ \A k \in (DOMAIN style.variant) \cap (DOMAIN style.size) :
               style.out[k] = style.variant[k]
        /\ \A k \in (DOMAIN style.size) \ (DOMAIN style.variant) :
               style.out[k] = style.size[k]
        /\ (InputDone /\ style.props.variant = "flushed")
               => (style.out.rounded = Lit("0") /\ style.out.px = Undefined)

\* C15 witness: an Input of size lg and variant flushed, both fragments setting px
C15_Witness ==
    /\ InputDone
    /\ style.props.variant = "flushed" /\ style.props.size = "lg"
    /\ style.size.px = Lit("4") /\ style.variant.px = Undefined
    /\ style.out.px = Undefined /\ style.out.height = Lit("12")

\* what a lookup of key below root has to return: the theme's value when the
\* path is present, the literal otherwise
Expected(theme, root, key, literal) ==
    IF (root \o key) \in theme THEN ThemeValue(root \o key) ELSE literal

\* C16: every token lookup returns the theme's value when the path is present
\* and the literal input unchanged when it is absent: the focus and error border
\* colors of Input, and the color lookups of Button (solid and link, a color
\* scheme other than gray).
C16_LookupFallsBackToLiteral ==
    /\ (InputDone /\ style.props.variant \in {"flushed", "filled", "outline"})
          => /\ style.out._focus.borderColor
                  = Expected(style.props.theme, <<"colors">>, style.props.focusBorderColor,
                             style.props.focusBorderColor)
             /\ style.out._invalid.borderColor
                  = Expected(style.props.theme, <<"colors">>, style.props.errorBorderColor,
                             style.props.errorBorderColor)
    /\ (ButtonDone /\ style.props.buttonColor # "gray" /\ style.props.buttonVariant = "solid")
          => style.out.backgroundColor
               = Expected(style.props.theme, <<"colors">>, <<style.props.buttonColor, "500">>,
                          Lit(style.props.buttonColor))
    /\ (ButtonDone /\ style.props.buttonColor # "gray" /\ style.props.buttonVariant = "link")
          => style.out.color
               = Expected(style.props.theme, <<"colors">>, <<style.props.buttonColor, "600">>,
                          Lit(style.props.buttonColor))

\* C17: with a size that is unset or not a recognized key the result is the
\* result for size md, for Input and for Button.
C17_DefaultSize ==
    /\ (InputDone /\ style.props.size \notin SizeKeys)
          => style.out = useInputStyle([style.props EXCEPT !.size = "md"])
    /\ (ButtonDone /\ style.props.buttonSize \notin SizeKeys)
          => style.out = StyledButton([style.props EXCEPT !.buttonSize = "md"])

OtherMode(m) == IF m = "light" THEN "dark" ELSE "light"

\* C18: the variant fragment of a Button is the same in the other mode, except
\* for the color scheme gray with the variants solid, ghost and outline, where it
\* differs.
C18_ModeOnlyForGray ==
    ButtonDone =>
        ( (style.variant = variantStyle([style.props EXCEPT !.mode = OtherMode(@)]).css)
            <=> ~( /\ style.props.buttonColor = "gray"
                   /\ style.props.buttonVariant \in {"solid", "ghost", "outline"} ) )

\* C18 witness: a gray solid Button in dark mode with the alpha colors, and
\* not the literals of light mode
C18_Witness ==
    /\ ButtonDone
    /\ style.props.buttonColor = "gray" /\ style.props.buttonVariant = "solid"
    /\ style.props.mode = "dark"
    /\ style.variant.color = ThemeValue(<<"colors", "alpha", "900">>)
    /\ solidColorStyle([style.props EXCEPT !.mode = "light"]).color = Lit("inherit")

---------------------------------------------------------------------------
(* The Avatar component (packages/Avatar/src/Avatar.tsx).  A string is the  *)
(* sequence of its characters; the empty one stands for an unset prop too.  *)

\* the longest name an Avatar is given
MaxName == 3

Chars == {" ", "a", "b"}

RECURSIVE NamesOfLength(_)
NamesOfLength(n) ==
    IF n = 0 THEN {<<>>}
    ELSE {<<c>> \o w : c \in Chars, w \in NamesOfLength(n - 1)}

Names == UNION {NamesOfLength(n) : n \in 0..MaxName}

Sources == {"", "p.png", "q.png"}

\* name.split(" "): the pieces between the spaces, empty ones included
RECURSIVE Split(_)
Split(str) ==
    IF str = <<>> THEN << <<>> >>
    ELSE LET rest == Split(Tail(str))
         IN  IF Head(str) = " "
             THEN << <<>> >> \o rest
             ELSE << <<Head(str)>> \o Head(rest) >> \o Tail(rest)

\* str.charAt(0)
charAt0(str) == IF str = <<>> THEN <<>> ELSE <<Head(str)>>

\* getInitials that takes the first two pieces as they are
getInitials_noGuard(name) ==
    LET parts == Split(name)
    IN  charAt0(parts[1]) \o (IF Len(parts) >= 2 THEN charAt0(parts[2]) ELSE <<>>)

getInitials(name) ==
    LET parts == Split(name)
        firstName == parts[1]
        lastName == IF Len(parts) >= 2 THEN parts[2] ELSE <<>>
    IN  IF firstName # <<>> /\ lastName # <<>>
        THEN charAt0(firstName) \o charAt0(lastName)
        ELSE charAt0(firstName)

\* what AvatarName renders
AvatarName(name) ==
    [kind |-> "name", text |-> IF name # <<>> THEN getInitials(name) ELSE <<>>]

DefaultAvatar == [kind |-> "default", text |-> <<>>]

getChildren(src, name, hasLoaded) ==
    IF src # "" /\ hasLoaded THEN [kind |-> "img", text |-> <<>>]
    ELSE IF src # "" /\ ~hasLoaded
         THEN (IF name # <<>> THEN AvatarName(name) ELSE DefaultAvatar)
    ELSE IF src = "" /\ name # <<>> THEN AvatarName(name)
    ELSE DefaultAvatar

\* the render of Avatar with the props and state of a
Rendered(a) == [a EXCEPT !.children = getChildren(a.src, a.name, a.hasLoaded)]

InitAvatar ==
    /\ InitHook({IdleProps})
    /\ style = NoStyle
    /\ \E src \in Sources, name \in Names, onError \in BOOLEAN :
          avatar = Rendered([rendered |-> TRUE, src |-> src, name |-> name,
                             onError |-> onError, hasLoaded |-> TRUE,
                             onErrorCalls |-> 0, errors |-> 0, failed |-> "",
                             children |-> DefaultAvatar])

\* the image fails to load: the img element calls onLoadError
onLoadError ==
    /\ avatar.children.kind = "img"
    /\ avatar' = Rendered([avatar EXCEPT !.hasLoaded = FALSE,
                                         !.onErrorCalls = IF avatar.onError THEN @ + 1 ELSE @,
                                         !.errors = @ + 1,
                                         !.failed = avatar.src])
    /\ UNCHANGED <<kvars, style>>

\* a render with another src that takes the image as loaded again
SetSrc_loadsAgain(src) ==
    /\ src # avatar.src
    /\ avatar' = Rendered([avatar EXCEPT !.src = src, !.hasLoaded = TRUE])
    /\ UNCHANGED <<kvars, style>>

\* the owner renders the Avatar again with another src
SetSrc(src) ==
    /\ src # avatar.src
    /\ avatar' = Rendered([avatar EXCEPT !.src = src])
    /\ UNCHANGED <<kvars, style>>

\* the owner renders the Avatar again with another name
SetName(name) ==
    /\ name # avatar.name
    /\ avatar' = Rendered([avatar EXCEPT !.name = name])
    /\ UNCHANGED <<kvars, style>>

NextAvatar ==
    \/ onLoadError
    \/ \E src \in Sources : SetSrc(src)
    \/ \E name \in Names : SetName(name)

SpecAvatar == InitAvatar /\ [][NextAvatar]_vars

\* the words of a name: its pieces that are not empty
Words(name) == SelectSeq(Split(name), LAMBDA w : w # <<>>)

\* the first character of the first word and of the second, when there is one
WordInitials(name) ==
    LET ws == Words(name)
    IN  IF Len(ws) >= 2 THEN <<ws[1][1], ws[2][1]>>
        ELSE IF Len(ws) = 1 THEN <<ws[1][1]>>
        ELSE <<>>

---------------------------------------------------------------------------
(* Properties of a controlled tooltip, checked under SpecControlled *)

TimerRuns == {"timeoutOpen", "timeoutClose"}

\* C21: a controlled tooltip returns the isOpen its owner supplies, whatever
\* events were handled and timers have run; a timer that runs invokes onOpen
\* (an open timer) or onClose (a close timer) once when it is supplied and
\* writes no state, and nothing else invokes them.
C21_ControlledFollowsProp ==
    /\ [](isControlled => isOpen = Boolean(props.isOpen))
    /\ [][ /\ lastEvent' = "timeoutOpen" => OpenEffect
           /\ lastEvent' = "timeoutClose" => CloseEffect
           /\ lastEvent' \in TimerRuns
                 => (isOpenState' = isOpenState
                       /\ Cardinality(timers') = Cardinality(timers) - 1)
           /\ lastEvent' \notin TimerRuns => UNCHANGED <<onOpenCalls, onCloseCalls>> ]_vars

\* C21 witness: an open timer has invoked onOpen, the owner has then supplied
\* isOpen true, and the tooltip returns true with its internal state untouched
C21_Witness ==
    /\ isControlled /\ mounted /\ props.onOpen
    /\ lastEvent = "props" /\ props.isOpen = "true"
    /\ onOpenCalls = 1 /\ onCloseCalls = 0
    /\ isOpen /\ ~isOpenState

\* C22: hasLoaded is true until an image load error, which sets it to false and
\* invokes onError once when it is supplied; it is never set back to true, so
\* after a load error no image is rendered again, whatever src becomes.
C22_HasLoadedNeverReturns ==
    /\ [](avatar.rendered =>
            /\ avatar.hasLoaded <=> avatar.errors = 0
            /\ avatar.onErrorCalls = (IF avatar.onError THEN avatar.errors ELSE 0)
            /\ avatar.errors > 0 => avatar.children.kind # "img")
    /\ [][ (avatar.rendered /\ ~avatar.hasLoaded)
             => (~avatar'.hasLoaded /\ avatar'.children.kind # "img"
                   /\ avatar'.onErrorCalls = avatar.onErrorCalls) ]_vars

\* C22 witness: the load of p.png failed, onError was invoked once, and after src
\* has become q.png the initials are rendered, not the image
C22_Witness ==
    /\ avatar.rendered /\ avatar.onError
    /\ avatar.failed = "p.png" /\ avatar.src = "q.png"
    /\ ~avatar.hasLoaded /\ avatar.errors = 1 /\ avatar.onErrorCalls = 1
    /\ avatar.name = <<"a", " ", "b">>
    /\ avatar.children = [kind |-> "name", text |-> <<"a", "b">>]

====
